---- MODULE Spec2Model ----
(***************************************************************************)
(* Model of src/lambda_function.py: a Lambda handler that scans a DynamoDB *)
(* table, builds a Spark DataFrame with an all-string schema taken from    *)
(* the first record, encodes it as Parquet and puts the bytes under one    *)
(* fixed key of an S3 bucket.                                              *)
(*                                                                         *)
(* The three services the handler calls (DynamoDB, Spark, S3) are the      *)
(* environment.  Each call either completes with the result its API        *)
(* documents or raises; the handler has no try/except, so a raise ends the *)
(* invocation.  Two invocation slots run the same handler concurrently,    *)
(* interleaving at the service calls.                                      *)
(***************************************************************************)
EXTENDS Integers, Sequences, FiniteSets, Bags, TLC

\* ------------------------------------------------------------------ bounds
MaxInvocations == 2
MaxTableOps == 1

\* --------------------------------------------------------------- constants
\* One scan() call returns one page; the code never follows LastEvaluatedKey.
PageLimit == 2

Slots == {1, 2}
Events == {"e1", "e2"}

OBJECT_KEY == "dynamodb_backup.parquet"
CONTENT_TYPE == "application/octet-stream"
BODY_NO_DATA == "No data to backup"
BODY_SAVED == "Backup saved in Parquet format"
STATUS_OK == 200

Unset == "<unset>"
TableNames == {"source-table"}
BucketNames == {"backup-bucket"}
AllBuckets == {"backup-bucket", "other-bucket"}
AllObjectKeys == {OBJECT_KEY, "other.txt"}

\* ------------------------------------------------------------------ values
\* Attribute values as boto3 hands them over: str, or Decimal for a number.
Str(x) == <<"S", x>>
Num(x) == <<"N", x>>
Null == <<"null", "">>

\* Key order of a record's .keys().
KeyOrder == <<"id", "name", "extra">>

\* The items the table may hold, in the order a scan returns them.
ItemUniverse ==
    << [id |-> Str("1"), name |-> Str("a")],
       [id |-> Str("2"), name |-> Str("b")],
       [id |-> Str("3"), name |-> Num("7")],
       [id |-> Str("4"), extra |-> Str("x")] >>

ItemIds == DOMAIN ItemUniverse

Range(s) == {s[k] : k \in DOMAIN s}

BagOfSeq(s) == [x \in Range(s) |-> Cardinality({k \in DOMAIN s : s[k] = x})]

RECURSIVE SeqOfSet(_)
\* The members of a set of item ids, ascending: the table's scan order.
SeqOfSet(S) ==
    IF S = {} THEN <<>>
    ELSE LET m == CHOOSE x \in S : \A y \in S : x <= y
         IN  <<m>> \o SeqOfSet(S \ {m})

Prefix(s, n) == IF Len(s) <= n THEN s ELSE SubSeq(s, 1, n)

TableItems(t) == LET ids == SeqOfSet(t) IN [k \in DOMAIN ids |-> ItemUniverse[ids[k]]]

\* response = table.scan(): the first page only.
ScanResponse(t) ==
    LET all == TableItems(t)
    IN  [Items |-> Prefix(all, PageLimit),
         Truncated |-> Len(all) > PageLimit]

\* schema = StructType([StructField(key, StringType(), True) for key in data[0].keys()])
InferSchema(data) == SelectSeq(KeyOrder, LAMBDA k : k \in DOMAIN data[1])

\* A value stored in a StringType column: a non-string is rendered as text.
ToStringValue(v) == IF v[1] = "N" THEN Str(v[2]) ELSE v

\* dict.get(key): None for a missing key.
Get(rec, k) == IF k \in DOMAIN rec THEN rec[k] ELSE Null

\* One dict row against the schema: obj.get(name) per field, other keys ignored.
ToInternal(rec, schema) == [c \in DOMAIN schema |-> ToStringValue(Get(rec, schema[c]))]

\* df = spark.createDataFrame(data, schema=schema)
CreateDataFrame(data, schema) ==
    [schema |-> schema,
     rows |-> [r \in DOMAIN data |-> ToInternal(data[r], schema)]]

\* df.write.parquet(parquet_buffer): the schema and one value vector per column.
WriteParquet(df) ==
    [schema |-> df.schema,
     cols |-> [c \in DOMAIN df.schema |-> [r \in DOMAIN df.rows |-> df.rows[r][c]]]]

NoBytes == [schema |-> <<>>, cols |-> <<>>]
NoFrame == [schema |-> <<>>, rows |-> <<>>]

ColumnOf(schema, k) == CHOOSE c \in DOMAIN schema : schema[c] = k

NumRows(bytes) == IF bytes.cols = <<>> THEN 0 ELSE Len(bytes.cols[1])

\* Reading a snapshot back: one record per row, keyed by the embedded schema.
ReadParquet(bytes) ==
    [r \in 1..NumRows(bytes) |->
        [k \in Range(bytes.schema) |-> bytes.cols[ColumnOf(bytes.schema, k)][r]]]

\* A table record with every field rendered as a string.
AsStrings(rec) == [k \in DOMAIN rec |-> ToStringValue(rec[k])]

AsStringsSeq(data) == [r \in DOMAIN data |-> AsStrings(data[r])]

NoResult == [statusCode |-> 0, body |-> ""]

Absent == [exists |-> FALSE, body |-> NoBytes, ctype |-> ""]
OtherObject == [exists |-> TRUE, body |-> NoBytes, ctype |-> "text/plain"]

NoRequest == [Bucket |-> "", Key |-> "", ContentType |-> "", slot |-> 0]

VARIABLES
    environ,      \* os.environ: the names that are set
    proc,         \* "init" | "loaded" | "crashed": the module's load state
    TABLE_NAME,   \* module global
    BUCKET_NAME,  \* module global
    table,        \* the DynamoDB table: the ids of the items it holds
    tableVer,     \* number of writes the table has seen
    s3,           \* bucket -> key -> object
    pc,           \* slot -> position in lambda_handler
    event,        \* slot -> the event argument
    data,         \* slot -> local `data`
    df,           \* slot -> local `df`
    buffer,       \* slot -> parquet_buffer.getvalue()
    result,       \* slot -> the returned dictionary
    scanCalls,    \* slot -> table.scan() calls of the current invocation
    putCalls,     \* slot -> s3.put_object() calls of the current invocation
    started,      \* invocations started so far
    scannedFrom,  \* slot -> the table contents its scan read
    scanTick,     \* slot -> tableVer at its scan
    lastPut,      \* the latest put_object request
    prevObject    \* the object the latest put_object replaced

vars == <<environ, proc, TABLE_NAME, BUCKET_NAME, table, tableVer, s3, pc, event,
          data, df, buffer, result, scanCalls, putCalls, started, scannedFrom,
          scanTick, lastPut, prevObject>>

config == <<environ, proc, TABLE_NAME, BUCKET_NAME>>
locals == <<data, df, buffer, result>>
ghosts == <<scannedFrom, scanTick>>

Init ==
    /\ environ \in SUBSET {"TABLE_NAME", "BUCKET_NAME"}
    /\ proc = "init"
    /\ TABLE_NAME = Unset
    /\ BUCKET_NAME = Unset
    /\ table \in SUBSET ItemIds
    /\ tableVer = 0
    /\ s3 = [b \in AllBuckets |-> [k \in AllObjectKeys |->
                IF k = OBJECT_KEY THEN Absent ELSE OtherObject]]
    /\ pc = [i \in Slots |-> "idle"]
    /\ event = [i \in Slots |-> "e1"]
    /\ data = [i \in Slots |-> <<>>]
    /\ df = [i \in Slots |-> NoFrame]
    /\ buffer = [i \in Slots |-> NoBytes]
    /\ result = [i \in Slots |-> NoResult]
    /\ scanCalls = [i \in Slots |-> 0]
    /\ putCalls = [i \in Slots |-> 0]
    /\ started = 0
    /\ scannedFrom = [i \in Slots |-> {}]
    /\ scanTick = [i \in Slots |-> 0]
    /\ lastPut = NoRequest
    /\ prevObject = Absent

\* Mutant: os.environ.get(name, default), which never raises.
EnvironGetDefault(name, value) == value

\* TABLE_NAME = os.environ["TABLE_NAME"]; BUCKET_NAME = os.environ["BUCKET_NAME"]
EnvironLookup(name, value) == IF name \in environ THEN value ELSE Unset

ModuleLoad ==
    /\ proc = "init"
    /\ \E t \in TableNames, b \in BucketNames :
        LET tn == EnvironLookup("TABLE_NAME", t)
            bn == EnvironLookup("BUCKET_NAME", b)
        IN  IF tn = Unset
            THEN /\ proc' = "crashed"
                 /\ UNCHANGED <<TABLE_NAME, BUCKET_NAME>>
            ELSE IF bn = Unset
            THEN /\ proc' = "crashed"
                 /\ TABLE_NAME' = tn
                 /\ UNCHANGED BUCKET_NAME
            ELSE /\ proc' = "loaded"
                 /\ TABLE_NAME' = tn
                 /\ BUCKET_NAME' = bn
    /\ UNCHANGED <<environ, table, tableVer, s3, pc, event, locals, scanCalls,
                   putCalls, started, ghosts, lastPut, prevObject>>

\* The runtime calls lambda_handler(event, context) in a free slot.
Invoke(i, e) ==
    /\ proc = "loaded"
    /\ pc[i] = "idle"
    /\ started < MaxInvocations
    /\ started' = started + 1
    /\ pc' = [pc EXCEPT ![i] = "start"]
    /\ event' = [event EXCEPT ![i] = e]
    /\ UNCHANGED <<config, table, tableVer, s3, locals, scanCalls, putCalls,
                   ghosts, lastPut, prevObject>>

\* Mutant: `if data is None`, which an empty list never satisfies.
NotDataIsNone(d) == FALSE

\* if not data:
NotData(d) == d = <<>>

\* Mutant: the failed call is caught and tried again from the same place.
RaiseRetried(i) ==
    /\ pc' = pc
    /\ result' = result

\* An exception leaves lambda_handler: no result dictionary.
Raise(i) ==
    /\ pc' = [pc EXCEPT ![i] = "raised"]
    /\ result' = [result EXCEPT ![i] = NoResult]

\* response = table.scan(); data = response.get("Items", []); if not data: return
Scan(i) ==
    /\ pc[i] = "start"
    /\ scanCalls' = [scanCalls EXCEPT ![i] = @ + 1]
    /\ \/ /\ Raise(i)
          /\ UNCHANGED <<data, ghosts>>
       \/ LET items == ScanResponse(table).Items
          IN  /\ data' = [data EXCEPT ![i] = items]
              /\ scannedFrom' = [scannedFrom EXCEPT ![i] = table]
              /\ scanTick' = [scanTick EXCEPT ![i] = tableVer]
              /\ IF NotData(items)
                 THEN /\ pc' = [pc EXCEPT ![i] = "done"]
                      /\ result' = [result EXCEPT ![i] =
                            [statusCode |-> STATUS_OK, body |-> BODY_NO_DATA]]
                 ELSE /\ pc' = [pc EXCEPT ![i] = "scanned"]
                      /\ UNCHANGED result
    /\ UNCHANGED <<config, table, tableVer, s3, event, df, buffer, putCalls,
                   started, lastPut, prevObject>>

\* spark = ...getOrCreate(); schema = ...; df = spark.createDataFrame(data, schema)
BuildFrame(i) ==
    /\ pc[i] = "scanned"
    /\ \/ /\ Raise(i)
          /\ UNCHANGED df
       \/ /\ df' = [df EXCEPT ![i] = CreateDataFrame(data[i], InferSchema(data[i]))]
          /\ pc' = [pc EXCEPT ![i] = "framed"]
          /\ UNCHANGED result
    /\ UNCHANGED <<config, table, tableVer, s3, event, data, buffer, scanCalls,
                   putCalls, started, ghosts, lastPut, prevObject>>

\* parquet_buffer = BytesIO(); df.write.parquet(parquet_buffer)
\* The write either leaves the snapshot in the buffer, which is what the code's
\* comment says it does, or raises.
Encode(i) ==
    /\ pc[i] = "framed"
    /\ \/ /\ Raise(i)
          /\ UNCHANGED buffer
       \/ /\ buffer' = [buffer EXCEPT ![i] = WriteParquet(df[i])]
          /\ pc' = [pc EXCEPT ![i] = "encoded"]
          /\ UNCHANGED result
    /\ UNCHANGED <<config, table, tableVer, s3, event, data, df, scanCalls,
                   putCalls, started, ghosts, lastPut, prevObject>>

\* Mutant: the key carries the invocation's event.
PutRequestKeyed(i) ==
    [Bucket |-> BUCKET_NAME,
     Key |-> IF event[i] = "e2" THEN "other.txt" ELSE OBJECT_KEY,
     ContentType |-> CONTENT_TYPE, slot |-> i]

\* The request s3.put_object(...) sends.
PutRequest(i) ==
    [Bucket |-> BUCKET_NAME, Key |-> OBJECT_KEY, ContentType |-> CONTENT_TYPE, slot |-> i]

\* Mutant: the new rows are appended to the object already there.
StoredObjectAppended(old, body, ctype) ==
    [exists |-> TRUE,
     body |-> IF old.exists /\ old.body.schema = body.schema
              THEN [schema |-> body.schema,
                    cols |-> [c \in DOMAIN body.cols |-> old.body.cols[c] \o body.cols[c]]]
              ELSE body,
     ctype |-> ctype]

\* What S3 stores for a put of `body`: the new object replaces the old one.
StoredObject(old, body, ctype) == [exists |-> TRUE, body |-> body, ctype |-> ctype]

\* s3.put_object(Bucket=BUCKET_NAME, Key="dynamodb_backup.parquet", Body=..., ContentType=...)
PutObject(i) ==
    /\ pc[i] = "encoded"
    /\ putCalls' = [putCalls EXCEPT ![i] = @ + 1]
    /\ \/ /\ Raise(i)
          /\ UNCHANGED <<s3, lastPut, prevObject>>
       \/ LET req == PutRequest(i)
          IN  /\ s3' = [s3 EXCEPT ![req.Bucket][req.Key] =
                          StoredObject(@, buffer[i], req.ContentType)]
              /\ lastPut' = req
              /\ prevObject' = s3[req.Bucket][req.Key]
              /\ pc' = [pc EXCEPT ![i] = "uploaded"]
              /\ UNCHANGED result
    /\ UNCHANGED <<config, table, tableVer, event, data, df, buffer, scanCalls,
                   started, ghosts>>

\* Mutant: the message echoes the event.
SavedBodyEcho(e) == IF e = "e2" THEN "Backup saved for e2" ELSE BODY_SAVED

\* The body of the success result.
SavedBody(e) == BODY_SAVED

\* return {"statusCode": 200, "body": "Backup saved in Parquet format"}
Return(i) ==
    /\ pc[i] = "uploaded"
    /\ pc' = [pc EXCEPT ![i] = "done"]
    /\ result' = [result EXCEPT ![i] =
                    [statusCode |-> STATUS_OK, body |-> SavedBody(event[i])]]
    /\ UNCHANGED <<config, table, tableVer, s3, event, data, df, buffer, scanCalls,
                   putCalls, started, ghosts, lastPut, prevObject>>

\* The runtime has taken the result (or the exception); the slot is free again
\* (only while another invocation can still start).
Finish(i) ==
    /\ pc[i] \in {"done", "raised"}
    /\ started < MaxInvocations
    /\ pc' = [pc EXCEPT ![i] = "idle"]
    /\ data' = [data EXCEPT ![i] = <<>>]
    /\ df' = [df EXCEPT ![i] = NoFrame]
    /\ buffer' = [buffer EXCEPT ![i] = NoBytes]
    /\ result' = [result EXCEPT ![i] = NoResult]
    /\ scanCalls' = [scanCalls EXCEPT ![i] = 0]
    /\ putCalls' = [putCalls EXCEPT ![i] = 0]
    /\ scannedFrom' = [scannedFrom EXCEPT ![i] = {}]
    /\ scanTick' = [scanTick EXCEPT ![i] = 0]
    /\ UNCHANGED <<config, table, tableVer, s3, event, started, lastPut, prevObject>>

\* Another client of the table adds an item.
TablePut(x) ==
    /\ x \notin table
    /\ tableVer < MaxTableOps
    /\ table' = table \cup {x}
    /\ tableVer' = tableVer + 1
    /\ UNCHANGED <<config, s3, pc, event, locals, scanCalls, putCalls, started,
                   ghosts, lastPut, prevObject>>

\* Another client of the table deletes an item.
TableDelete(x) ==
    /\ x \in table
    /\ tableVer < MaxTableOps
    /\ table' = table \ {x}
    /\ tableVer' = tableVer + 1
    /\ UNCHANGED <<config, s3, pc, event, locals, scanCalls, putCalls, started,
                   ghosts, lastPut, prevObject>>

Next ==
    \/ ModuleLoad
    \/ \E i \in Slots, e \in Events : Invoke(i, e)
    \/ \E i \in Slots : Scan(i)
    \/ \E i \in Slots : BuildFrame(i)
    \/ \E i \in Slots : Encode(i)
    \/ \E i \in Slots : PutObject(i)
    \/ \E i \in Slots : Return(i)
    \/ \E i \in Slots : Finish(i)
    \/ \E x \in ItemIds : TablePut(x)
    \/ \E x \in ItemIds : TableDelete(x)

Spec == Init /\ [][Next]_vars

\* ------------------------------------------------------------------ claims

TheObject == IF BUCKET_NAME \in AllBuckets THEN s3[BUCKET_NAME][OBJECT_KEY] ELSE Absent

\* The slot has put its snapshot in its current invocation.
HasPut(i) == pc[i] \in {"uploaded", "done"} /\ putCalls[i] = 1

\* The latest put is the one of slot i's current invocation.
IsLatestPut(i) == HasPut(i) /\ lastPut.slot = i

\* All records have the key set of the first.
UniformKeys(recs) == \A r \in DOMAIN recs : DOMAIN recs[r] = DOMAIN recs[1]

\* The scanned records read against the first record's keys, every value a string.
Projected(recs) ==
    [r \in DOMAIN recs |->
        [k \in DOMAIN recs[1] |-> ToStringValue(Get(recs[r], k))]]

\* C1: when the scan returns no items the handler returns statusCode 200 with
\* body "No data to backup" in that very step, issues no put_object, and the
\* step leaves every bucket as it was.
C1_EmptyScanNoWrite ==
    [][\A i \in Slots :
        (/\ pc[i] = "start"
         /\ pc'[i] \notin {"start", "raised"}
         /\ ScanResponse(table).Items = <<>>)
        => /\ pc'[i] = "done"
           /\ result'[i] = [statusCode |-> 200, body |-> "No data to backup"]
           /\ putCalls'[i] = 0
           /\ s3' = s3
           /\ lastPut' = lastPut]_vars

\* C1 witness: an invocation has returned "No data to backup" for an empty
\* table while an earlier snapshot is still in the bucket.
C1_Witness ==
    \E i \in Slots :
        /\ pc[i] = "done"
        /\ scanCalls[i] = 1
        /\ scannedFrom[i] = {}
        /\ result[i].body = BODY_NO_DATA
        /\ putCalls[i] = 0
        /\ TheObject.exists

C3_ScanFetchesAll ==
    \A i \in Slots :
        pc[i] \in {"scanned", "framed", "encoded", "uploaded"}
        => Range(data[i]) = Range(TableItems(scannedFrom[i]))

C5_FixedDestination ==
    /\ [](/\ \A i \in Slots : putCalls[i] <= 1
          /\ lastPut.slot # 0 =>
                /\ lastPut.Bucket = BUCKET_NAME
                /\ lastPut.Key = "dynamodb_backup.parquet"
                /\ lastPut.ContentType = "application/octet-stream")
    /\ [][\A b \in AllBuckets, k \in AllObjectKeys :
            s3'[b][k] # s3[b][k]
            => /\ b = BUCKET_NAME
               /\ k = "dynamodb_backup.parquet"
               /\ s3'[b][k].exists
               /\ s3'[b][k].ctype = "application/octet-stream"]_vars

\* C5 witness: a two-item table and then a three-item table have been backed
\* up under the same key, and every other object is as it was.
C5_Witness ==
    \E i, j \in Slots :
        /\ IsLatestPut(i) /\ Cardinality(scannedFrom[i]) = 3
        /\ HasPut(j) /\ Cardinality(scannedFrom[j]) = 2
        /\ prevObject.exists
        /\ TheObject.ctype = CONTENT_TYPE
        /\ \A b \in AllBuckets : s3[b]["other.txt"] = OtherObject
        /\ ~ s3["other-bucket"][OBJECT_KEY].exists

\* C6: with TABLE_NAME or BUCKET_NAME missing from the environment the module
\* never finishes loading, no invocation starts, and no scan or put_object is
\* ever attempted.
C6_MissingConfigFailsFast ==
    ("TABLE_NAME" \notin environ \/ "BUCKET_NAME" \notin environ)
    => /\ proc # "loaded"
       /\ started = 0
       /\ \A i \in Slots : pc[i] = "idle" /\ scanCalls[i] = 0 /\ putCalls[i] = 0
       /\ lastPut = NoRequest
       /\ \A b \in AllBuckets : ~ s3[b][OBJECT_KEY].exists

\* C6 witness: the load has failed on the missing BUCKET_NAME.
C6_Witness ==
    /\ "TABLE_NAME" \in environ
    /\ "BUCKET_NAME" \notin environ
    /\ proc = "crashed"

\* C7: a failing scan, DataFrame construction, encoding or upload ends the
\* invocation with an exception and no result, is not retried, and changes no
\* object; once the put has succeeded the invocation can only return; the
\* "Backup saved in Parquet format" result is returned only from there.
C7_AllOrNothing ==
    /\ [](\A i \in Slots :
            /\ scanCalls[i] <= 1
            /\ putCalls[i] <= 1
            /\ pc[i] = "raised" => result[i] = NoResult
            /\ result[i].body = BODY_SAVED => pc[i] = "done" /\ putCalls[i] = 1)
    /\ [][\A i \in Slots :
            /\ (pc[i] # "raised" /\ pc'[i] = "raised")
                  => /\ s3' = s3
                     /\ pc[i] \in {"start", "scanned", "framed", "encoded"}
            /\ pc[i] = "uploaded" => pc'[i] \in {"uploaded", "done"}
            /\ (pc[i] # "done" /\ pc'[i] = "done" /\ result'[i].body = BODY_SAVED)
                  => pc[i] = "uploaded"]_vars

\* C7 witness: an upload has failed, and the snapshot of an earlier invocation
\* is still the object.
C7_Witness ==
    \E i \in Slots :
        /\ pc[i] = "raised"
        /\ putCalls[i] = 1
        /\ result[i] = NoResult
        /\ TheObject.exists
        /\ TheObject.body # buffer[i]

\* C8: every result has statusCode 200 and body "No data to backup" (exactly
\* when the scan was empty) or "Backup saved in Parquet format"; two
\* invocations that scanned the same records return the same result and
\* produce the same object bytes, whatever their events.
C8_ResultIgnoresEvent ==
    /\ \A i \in Slots :
        result[i] # NoResult
        => /\ result[i].statusCode = 200
           /\ result[i].body \in {"No data to backup", "Backup saved in Parquet format"}
           /\ (result[i].body = "No data to backup") <=> (data[i] = <<>>)
    /\ \A i, j \in Slots :
        (/\ result[i] # NoResult
         /\ result[j] # NoResult
         /\ data[i] = data[j])
        => result[i] = result[j] /\ buffer[i] = buffer[j]

\* C8 witness: two invocations with different events have backed up the same
\* records and returned the same result.
C8_Witness ==
    /\ event[1] # event[2]
    /\ pc[1] = "done" /\ pc[2] = "done"
    /\ data[1] # <<>>
    /\ data[1] = data[2]
    /\ result[1] = result[2]
    /\ result[1].body = BODY_SAVED

====
